---- MODULE Spec2Model ----
(***************************************************************************)
(* A model of task_tracker (src/src/main.rs): the store file, the text    *)
(* encoder (impl Display for Task / TaskHandler, main's writeln!), the     *)
(* text decoder (TaskHandler::query_task_file), the commands of            *)
(* TaskHandler and main's dispatch, for one or two invocations that share  *)
(* the store file.                                                         *)
(*                                                                         *)
(* Text is a sequence of one-character strings.  A SystemTime is an        *)
(* integer number of ticks since UNIX_EPOCH, TicksPerSec ticks to the      *)
(* second (the real clock has 10^9).                                       *)
(***************************************************************************)
EXTENDS Integers, Sequences, FiniteSets, TLC

VARIABLES
    file,        \* the store file tasks.json: [exists, text]
    now,         \* the last value SystemTime::now() gave, in ticks since
                 \* UNIX_EPOCH
    procs,       \* the invocations that may run: {1}, or {1, 2} racing
    pc,          \* per invocation: "off", "loaded", "ran", "exit", and the
                 \* two aborts "load_panic" and "cmd_panic"
    args,        \* per invocation: the arguments after the program name
    tasks,       \* per invocation: TaskHandler.tasks
    updated,     \* per invocation: TaskHandler.updated, the dirty flag
    out,         \* per invocation: what it printed
    loaded,      \* per invocation: the collection query_task_file returned
    wrote,       \* per invocation: whether it wrote the store file
    loadedAt,    \* per invocation: the number of writes before its load
    started,     \* the invocations started so far
    writes,      \* the writes of the store file so far
    lastWriter   \* the invocation that wrote the store file last, or 0

vars == <<file, now, procs, pc, args, tasks, updated, out, loaded, wrote,
          loadedAt, started, writes, lastWriter>>

----------------------------------------------------------------------------
(* Bounds of the model *)

\* sub-second resolution of SystemTime (ticks per second)
TicksPerSec == 2
\* the latest tick the clock reaches
MaxTime == 2
\* invocations of the program in one behaviour
MaxInvocations == 2

----------------------------------------------------------------------------
(* Text primitives (the std library calls the program makes) *)

Digits == <<"0", "1", "2", "3", "4", "5", "6", "7", "8", "9">>

IsDigit(c) == \E i \in 1..10 : Digits[i] = c

DigitVal(c) == (CHOOSE i \in 1..10 : Digits[i] = c) - 1

\* char::is_whitespace, over the characters the model writes
Whitespace == {" ", "\n"}

\* the first index at or after i whose character is not in drop
RECURSIVE FirstKept(_, _, _)
FirstKept(s, drop, i) ==
    IF i <= Len(s) /\ s[i] \in drop THEN FirstKept(s, drop, i + 1) ELSE i

\* the last index at or before i whose character is not in drop
RECURSIVE LastKept(_, _, _)
LastKept(s, drop, i) ==
    IF i >= 1 /\ s[i] \in drop THEN LastKept(s, drop, i - 1) ELSE i

\* str::trim
Trim(s) == SubSeq(s, FirstKept(s, Whitespace, 1), LastKept(s, Whitespace, Len(s)))

\* str::trim_end_matches(c): every trailing c goes
TrimEndMatches(s, c) == SubSeq(s, 1, LastKept(s, {c}, Len(s)))

\* str::trim_matches(c): every leading and every trailing c goes
TrimMatches(s, c) == SubSeq(s, FirstKept(s, {c}, 1), LastKept(s, {c}, Len(s)))

\* a decoder that leaves the double quotes in the text
KeepQuotes(s) == s

\* str::replace("\"", "")
RemoveQuotes(s) == SelectSeq(s, LAMBDA c : c # "\"")

\* the first index at or after i whose character is in delims
RECURSIVE NextDelim(_, _, _)
NextDelim(s, delims, i) ==
    IF i <= Len(s) /\ s[i] \notin delims THEN NextDelim(s, delims, i + 1) ELSE i

\* str::split on a set of delimiter characters: the pieces between the
\* delimiters, empty pieces included (n delimiters give n+1 pieces)
RECURSIVE SplitFrom(_, _, _)
SplitFrom(s, delims, start) ==
    LET end == NextDelim(s, delims, start)
    IN  IF end > Len(s) THEN <<SubSeq(s, start, Len(s))>>
        ELSE <<SubSeq(s, start, end - 1)>> \o SplitFrom(s, delims, end + 1)

Split(s, delims) == SplitFrom(s, delims, 1)

RECURSIVE DecimalValue(_)
DecimalValue(s) ==
    IF s = <<>> THEN 0
    ELSE DecimalValue(SubSeq(s, 1, Len(s) - 1)) * 10 + DigitVal(s[Len(s)])

\* a parse whose failure is read as 0 (unwrap_or_default in place of expect)
ParseUnsignedOrZero(s) ==
    LET body == IF s # <<>> /\ s[1] = "+" THEN Tail(s) ELSE s
    IN  IF body # <<>> /\ \A i \in 1..Len(body) : IsDigit(body[i])
        THEN DecimalValue(body)
        ELSE 0

\* str::parse::<u32>() and ::<u64>(): an optional '+', then one or more
\* decimal digits; anything else is Err, written -1.  (The stores of the
\* model hold numerals far below u32::MAX.)
ParseUnsigned(s) ==
    LET body == IF s # <<>> /\ s[1] = "+" THEN Tail(s) ELSE s
    IN  IF body # <<>> /\ \A i \in 1..Len(body) : IsDigit(body[i])
        THEN DecimalValue(body)
        ELSE -1

\* the Display of an unsigned integer
RECURSIVE FormatUnsigned(_)
FormatUnsigned(n) ==
    IF n < 10 THEN <<Digits[n + 1]>>
    ELSE FormatUnsigned(n \div 10) \o <<Digits[(n % 10) + 1]>>

----------------------------------------------------------------------------
(* The encoder: impl Display for Status, Task, TaskHandler; main's writeln! *)

\* enum Status
Status == {"Todo", "InProgress", "Done"}

\* impl Display for Status
StatusText(st) ==
    CASE st = "Todo"       -> <<"t", "o", "d", "o">>
      [] st = "InProgress" -> <<"i", "n", "-", "p", "r", "o", "g", "r", "e", "s", "s">>
      [] st = "Done"       -> <<"d", "o", "n", "e">>

\* an encoder that writes the time in clock ticks instead of seconds
TicksSinceEpoch(t) == IF t >= 0 THEN t ELSE 0

\* duration_since(UNIX_EPOCH) .as_secs(), 0 when the time is before the epoch
SecsSinceEpoch(t) == IF t >= 0 THEN t \div TicksPerSec ELSE 0

\* UNIX_EPOCH + Duration::from_secs(n)
FromSecs(n) == n * TicksPerSec

\* impl Display for Task: the write! of the five fields
TaskText(task) ==
    <<"\n", "\"", "i", "d", "\"", ":">>
    \o FormatUnsigned(task.id)
    \o <<",", "\n", "\"", "d", "e", "s", "c", "r", "i", "p", "t", "i", "o", "n", "\"", ":", " ", "\"">>
    \o task.description
    \o <<"\"", ",", "\n", "\"", "s", "t", "a", "t", "u", "s", "\"", ":", " ", "\"">>
    \o StatusText(task.status)
    \o <<"\"", ",", "\n", "\"", "c", "r", "e", "a", "t", "e", "d", "_", "a", "t", "\"", ":", " ">>
    \o FormatUnsigned(SecsSinceEpoch(task.created_at))
    \o <<",", "\n", "\"", "u", "p", "d", "a", "t", "e", "d", "_", "a", "t", "\"", ":", " ">>
    \o FormatUnsigned(SecsSinceEpoch(task.updated_at))
    \o <<"\n">>

\* the orders in which HashMap::iter may visit the keys of a map
Orders(map) ==
    LET keys == DOMAIN map
        n    == Cardinality(keys)
    IN  {o \in [1..n -> keys] : \A i, j \in 1..n : o[i] = o[j] => i = j}

\* impl Display for TaskHandler, the map visited in the order `order`
RECURSIVE HandlerTextFrom(_, _, _)
HandlerTextFrom(map, order, i) ==
    IF i > Len(order) THEN <<>>
    ELSE <<"\n", "\"">> \o FormatUnsigned(order[i]) \o <<"\"", " ", ":", " ", "{", " ">>
         \o TaskText(map[order[i]]) \o <<" ", "}">>
         \o (IF i - 1 < Len(order) - 1 THEN <<",", "\n">> ELSE <<"\n">>)
         \o HandlerTextFrom(map, order, i + 1)

HandlerText(map, order) == HandlerTextFrom(map, order, 1)

\* main: writeln!(file, "{{\n \"tasks\": {{ {} }} \n }}", tasks)
StoreText(map, order) ==
    <<"{", "\n", " ", "\"", "t", "a", "s", "k", "s", "\"", ":", " ", "{", " ">>
    \o HandlerText(map, order)
    \o <<" ", "}", " ", "\n", " ", "}">>
    \o <<"\n">>

\* every text a save of `map` may write
StoreTexts(map) == {StoreText(map, o) : o \in Orders(map)}

----------------------------------------------------------------------------
(* The decoder: TaskHandler::query_task_file *)

EmptyMap == <<>>

\* HashMap::insert
Insert(map, k, v) ==
    [x \in (DOMAIN map) \cup {k} |-> IF x = k THEN v ELSE map[x]]

\* HashMap::remove
Remove(map, k) == [x \in (DOMAIN map) \ {k} |-> map[x]]

\* lines 180-185: the quotes go, the text is split on the braces, each
\* segment is trimmed and the empty ones dropped
Parts(data) ==
    LET clean == RemoveQuotes(data)
        segs  == Split(clean, {"{", "}"})
        trimmed == [k \in 1..Len(segs) |-> Trim(TrimEndMatches(Trim(segs[k]), ":"))]
    IN  SelectSeq(trimmed, LAMBDA p : p # <<>>)

\* lines 189-192: the colon-separated pieces of each comma-separated part
FieldPieces(id_task) ==
    LET parts == Split(id_task, {","})
    IN  [k \in 1..Len(parts) |-> Split(Trim(parts[k]), {":"})]

\* an extraction that takes the last of the pieces
FieldValueLast(pieces) == pieces[Len(pieces)]

\* line 191: element [1] of the pieces
FieldValue(pieces) == pieces[2]

\* a decoder that knows in-progress under another spelling
StatusOfMisspelled(s) ==
    IF s = <<"t", "o", "d", "o">> THEN "Todo"
    ELSE IF s = <<"i", "n", "_", "p", "r", "o", "g", "r", "e", "s", "s">> THEN "InProgress"
    ELSE IF s = <<"d", "o", "n", "e">> THEN "Done"
    ELSE "Todo"

\* a decoder that knows done under a capital letter too
StatusOfAnyCase(s) ==
    IF s = <<"t", "o", "d", "o">> THEN "Todo"
    ELSE IF s = <<"i", "n", "-", "p", "r", "o", "g", "r", "e", "s", "s">> THEN "InProgress"
    ELSE IF s \in {<<"d", "o", "n", "e">>, <<"D", "o", "n", "e">>} THEN "Done"
    ELSE "Todo"

\* the decoded Status of a status text, lines 207-212
StatusOf(s) ==
    IF s = <<"t", "o", "d", "o">> THEN "Todo"
    ELSE IF s = <<"i", "n", "-", "p", "r", "o", "g", "r", "e", "s", "s">> THEN "InProgress"
    ELSE IF s = <<"d", "o", "n", "e">> THEN "Done"
    ELSE "Todo"

\* a decoder that stores the record under its embedded id
RecordIdEmbedded(id, inner_id) == inner_id

\* the key under which a decoded record is stored and the id of its Task,
\* lines 225-232
RecordId(id, inner_id) == id

\* lines 189-232: one record body under the key id.  ok is FALSE where the
\* code panics: a part without ':' (index 1 out of range), fewer than five
\* parts, a failed parse.  mismatch tells whether line 198 printed, which
\* it does before the later fields are read.
DecodeBody(id, id_task) ==
    LET pieces == FieldPieces(id_task)
        Panic(printed) ==
            [ok |-> FALSE, mismatch |-> printed, key |-> 0, task |-> <<>>]
    IN  IF \E k \in 1..Len(pieces) : Len(pieces[k]) < 2 THEN Panic(FALSE)
        ELSE
        LET task_parts == [k \in 1..Len(pieces) |-> FieldValue(pieces[k])]
            inner_id   == ParseUnsigned(Trim(task_parts[1]))
        IN  IF inner_id < 0 THEN Panic(FALSE)
            ELSE IF Len(task_parts) < 5 THEN Panic(id # inner_id)
            ELSE
            LET created  == ParseUnsigned(Trim(task_parts[4]))
                updated_ == ParseUnsigned(Trim(task_parts[5]))
            IN  IF created < 0 \/ updated_ < 0 THEN Panic(id # inner_id)
                ELSE [ok |-> TRUE,
                      mismatch |-> (id # inner_id),
                      key  |-> RecordId(id, inner_id),
                      task |-> [id          |-> RecordId(id, inner_id),
                                description |-> Trim(task_parts[2]),
                                status      |-> StatusOf(Trim(task_parts[3])),
                                created_at  |-> FromSecs(created),
                                updated_at  |-> FromSecs(updated_)]]

\* lines 186-240: the walk over the segments after the wrapper; i counts
\* from 0 as enumerate does.  diag counts the mismatch diagnostics printed.
RECURSIVE Walk(_, _, _, _, _)
Walk(parts, i, id, map, diag) ==
    IF i + 2 > Len(parts) THEN [ok |-> TRUE, tasks |-> map, diag |-> diag]
    ELSE IF i % 2 = 1
    THEN LET r == DecodeBody(id, parts[i + 2])
             printed == diag + (IF r.mismatch THEN 1 ELSE 0)
         IN  IF ~r.ok THEN [ok |-> FALSE, tasks |-> EmptyMap, diag |-> printed]
             ELSE Walk(parts, i + 1, id, Insert(map, r.key, r.task), printed)
    ELSE LET key == ParseUnsigned(Trim(TrimMatches(parts[i + 2], ",")))
         IN  IF key < 0 THEN [ok |-> FALSE, tasks |-> EmptyMap, diag |-> diag]
             ELSE Walk(parts, i + 1, key, map, diag)

\* TaskHandler::query_task_file on the store f: ok is FALSE when the load
\* panics
query_task_file(f) ==
    IF ~f.exists THEN [ok |-> TRUE, tasks |-> EmptyMap, diag |-> 0]
    ELSE Walk(Parts(f.text), 0, 0, EmptyMap, 0)

----------------------------------------------------------------------------
(* The commands: impl TaskHandler.  A handler h is [tasks, updated]; each
   command gives the handler after it and the line it prints. *)

\* an allocation by the size of the map (tasks.len() as the next id)
FirstFreeIdByCount(map, id) == Cardinality(DOMAIN map)

\* add, lines 84-87: the first id that is not a key
RECURSIVE FirstFreeId(_, _)
FirstFreeId(map, id) ==
    IF id \in DOMAIN map THEN FirstFreeId(map, id + 1) ELSE id

\* an add that numbers the task by the size of the map and stores it
\* under the first free key
add_numbered_by_count(h, description, t) ==
    LET id == FirstFreeId(h.tasks, 0)
    IN  [tasks   |-> Insert(h.tasks, id, [id          |-> Cardinality(DOMAIN h.tasks),
                                          description |-> description,
                                          status      |-> "Todo",
                                          created_at  |-> t,
                                          updated_at  |-> t]),
         updated |-> TRUE,
         msg     |-> "Task added successfully"]

\* TaskHandler::add, lines 82-98; t is SystemTime::now()
add(h, description, t) ==
    LET id == FirstFreeId(h.tasks, 0)
    IN  [tasks   |-> Insert(h.tasks, id, [id          |-> id,
                                          description |-> description,
                                          status      |-> "Todo",
                                          created_at  |-> t,
                                          updated_at  |-> t]),
         updated |-> TRUE,
         msg     |-> "Task added successfully"]

\* an update that builds the task with Status::Todo
update_resetting_status(h, id, description, t) ==
    IF id \in DOMAIN h.tasks
    THEN [tasks   |-> Insert(h.tasks, id, [id          |-> id,
                                           description |-> description,
                                           status      |-> "Todo",
                                           created_at  |-> h.tasks[id].created_at,
                                           updated_at  |-> t]),
          updated |-> TRUE,
          msg     |-> "Task updated successfully"]
    ELSE [tasks |-> h.tasks, updated |-> h.updated, msg |-> "Task not available"]

\* TaskHandler::update, lines 100-116
update(h, id, description, t) ==
    IF id \in DOMAIN h.tasks
    THEN [tasks   |-> Insert(h.tasks, id, [id          |-> id,
                                           description |-> description,
                                           status      |-> h.tasks[id].status,
                                           created_at  |-> h.tasks[id].created_at,
                                           updated_at  |-> t]),
          updated |-> TRUE,
          msg     |-> "Task updated successfully"]
    ELSE [tasks |-> h.tasks, updated |-> h.updated, msg |-> "Task not available"]

\* a mark_in_progress that stamps created_at as well
mark_in_progress_recreating(h, id, t) ==
    IF id \in DOMAIN h.tasks
    THEN [tasks   |-> Insert(h.tasks, id, [id          |-> id,
                                           description |-> h.tasks[id].description,
                                           status      |-> "InProgress",
                                           created_at  |-> t,
                                           updated_at  |-> t]),
          updated |-> TRUE,
          msg     |-> "Task updated successfully"]
    ELSE [tasks |-> h.tasks, updated |-> h.updated, msg |-> "Task not available"]

\* TaskHandler::mark_in_progress, lines 118-134
mark_in_progress(h, id, t) ==
    IF id \in DOMAIN h.tasks
    THEN [tasks   |-> Insert(h.tasks, id, [id          |-> id,
                                           description |-> h.tasks[id].description,
                                           status      |-> "InProgress",
                                           created_at  |-> h.tasks[id].created_at,
                                           updated_at  |-> t]),
          updated |-> TRUE,
          msg     |-> "Task updated successfully"]
    ELSE [tasks |-> h.tasks, updated |-> h.updated, msg |-> "Task not available"]

\* a mark_done copied from mark_in_progress with the status left as it was
mark_done_as_in_progress(h, id, t) ==
    IF id \in DOMAIN h.tasks
    THEN [tasks   |-> Insert(h.tasks, id, [id          |-> id,
                                           description |-> h.tasks[id].description,
                                           status      |-> "InProgress",
                                           created_at  |-> h.tasks[id].created_at,
                                           updated_at  |-> t]),
          updated |-> TRUE,
          msg     |-> "Task updated successfully"]
    ELSE [tasks |-> h.tasks, updated |-> h.updated, msg |-> "Task not available"]

\* TaskHandler::mark_done, lines 136-152
mark_done(h, id, t) ==
    IF id \in DOMAIN h.tasks
    THEN [tasks   |-> Insert(h.tasks, id, [id          |-> id,
                                           description |-> h.tasks[id].description,
                                           status      |-> "Done",
                                           created_at  |-> h.tasks[id].created_at,
                                           updated_at  |-> t]),
          updated |-> TRUE,
          msg     |-> "Task updated successfully"]
    ELSE [tasks |-> h.tasks, updated |-> h.updated, msg |-> "Task not available"]

\* a delete that sets the dirty flag whether or not the id was a key
delete_always_dirty(h, id) ==
    IF id \in DOMAIN h.tasks
    THEN [tasks |-> Remove(h.tasks, id), updated |-> TRUE,
          msg |-> "Task deleted successfully"]
    ELSE [tasks |-> h.tasks, updated |-> TRUE,
          msg |-> "Task failed to delete or does not exist"]

\* a delete that removes the task and leaves the dirty flag as it was
delete_without_flag(h, id) ==
    IF id \in DOMAIN h.tasks
    THEN [tasks |-> Remove(h.tasks, id), updated |-> h.updated,
          msg |-> "Task deleted successfully"]
    ELSE [tasks |-> h.tasks, updated |-> h.updated,
          msg |-> "Task failed to delete or does not exist"]

\* TaskHandler::delete, lines 167-174
delete(h, id) ==
    IF id \in DOMAIN h.tasks
    THEN [tasks |-> Remove(h.tasks, id), updated |-> TRUE,
          msg |-> "Task deleted successfully"]
    ELSE [tasks |-> h.tasks, updated |-> h.updated,
          msg |-> "Task failed to delete or does not exist"]

\* TaskHandler::list, lines 157-164: the rows printed when the values are
\* visited in the order `order`; filter is "None" or a Status
RECURSIVE ListRows(_, _, _, _)
ListRows(map, order, filter, i) ==
    IF i > Len(order) THEN <<>>
    ELSE LET task == map[order[i]]
         IN  (IF filter # "None" /\ task.status # filter
              THEN <<>>
              ELSE <<[id |-> task.id, description |-> task.description,
                      status |-> task.status]>>)
             \o ListRows(map, order, filter, i + 1)

\* a list that prints every task whatever the filter
list_unfiltered(h, filter, order) == ListRows(h.tasks, order, "None", 1)

list(h, filter, order) == ListRows(h.tasks, order, filter, 1)

----------------------------------------------------------------------------
(* The inputs of the model *)

Procs == {1, 2}

CmdAdd    == <<"a", "d", "d">>
CmdUpdate == <<"u", "p", "d", "a", "t", "e">>
CmdDelete == <<"d", "e", "l", "e", "t", "e">>
CmdList   == <<"l", "i", "s", "t">>
CmdMarkInProgress ==
    <<"m", "a", "r", "k", "-", "i", "n", "-", "p", "r", "o", "g", "r", "e", "s", "s">>
CmdMarkDone == <<"m", "a", "r", "k", "-", "d", "o", "n", "e">>

\* a description that reads as further fields of its record: ,:,:1,:1
FieldsInDescription == <<",", ":", ",", ":", "1", ",", ":", "1">>

\* descriptions given to add: plain, empty, beginning with whitespace,
\* holding a quote, holding a colon, holding commas and colons
AddDescriptions ==
    {<<"a">>, <<>>, <<" ", "a">>, <<"a", "\"", "b">>, <<"a", ":", "b">>,
     FieldsInDescription}

\* descriptions given to update: plain, and a quote before whitespace
UpdateDescriptions == {<<"b">>, <<"\"", " ", "b">>}

\* id arguments: numeric ones and one that is no number
IdArgs == {<<"0">>, <<"1">>, <<"x">>}

\* status arguments of list: the three names and one that is none of them
FilterArgs == {StatusText(st) : st \in Status} \cup {<<"x">>}

\* the argument vectors after the program name
ArgVectors ==
    {<<>>, <<<<"x">>>>, <<CmdAdd>>, <<CmdList>>,
     <<CmdUpdate, <<"x">>>>, <<CmdDelete, <<"0">>, <<"0">>>>}
    \cup {<<CmdAdd, d>> : d \in AddDescriptions}
    \cup {<<CmdUpdate, i, d>> : i \in IdArgs, d \in UpdateDescriptions}
    \cup {<<c, i>> : c \in {CmdDelete, CmdMarkInProgress, CmdMarkDone}, i \in IdArgs}
    \cup {<<CmdList, f>> : f \in FilterArgs}

\* the argument vectors of the mutating commands on numeric ids
MutatingArgVectors ==
    {<<CmdAdd, <<"a">>>>, <<CmdAdd, <<"c">>>>,
     <<CmdUpdate, <<"0">>, <<"b">>>>,
     <<CmdDelete, <<"0">>>>, <<CmdMarkInProgress, <<"0">>>>,
     <<CmdMarkDone, <<"0">>>>}

Store(text) == [exists |-> TRUE, text |-> text]

NoStore == [exists |-> FALSE, text |-> <<>>]

\* a store as the program writes it: two tasks, ids 0 and 2
TwoTasks ==
    (0 :> [id |-> 0, description |-> <<"a">>, status |-> "Todo",
           created_at |-> 0, updated_at |-> 0])
    @@ (2 :> [id |-> 2, description |-> <<"c">>, status |-> "Done",
              created_at |-> 0, updated_at |-> FromSecs(1)])

\* a store as the program writes it: one task, id 0
OneTask ==
    0 :> [id |-> 0, description |-> <<"a">>, status |-> "Todo",
          created_at |-> 0, updated_at |-> 0]

\* a hand-written record, every field given as text
RecordText(key, id, description, status, created_at, updated_at) ==
    <<"\n", "\"">> \o key \o <<"\"", " ", ":", " ", "{", " ">>
    \o <<"\n", "\"", "i", "d", "\"", ":">> \o id
    \o <<",", "\n", "\"", "d", "e", "s", "c", "r", "i", "p", "t", "i", "o", "n", "\"", ":", " ", "\"">>
    \o description
    \o <<"\"", ",", "\n", "\"", "s", "t", "a", "t", "u", "s", "\"", ":", " ", "\"">>
    \o status
    \o <<"\"", ",", "\n", "\"", "c", "r", "e", "a", "t", "e", "d", "_", "a", "t", "\"", ":", " ">>
    \o created_at
    \o <<",", "\n", "\"", "u", "p", "d", "a", "t", "e", "d", "_", "a", "t", "\"", ":", " ">>
    \o updated_at
    \o <<"\n", " ", "}">>

\* a hand-written store of one record, and of two
OneRecordStore(r) ==
    Store(<<"{", "\n", " ", "\"", "t", "a", "s", "k", "s", "\"", ":", " ", "{", " ">>
          \o r \o <<"\n", " ", "}", " ", "\n", " ", "}", "\n">>)

TwoRecordStore(r1, r2) ==
    Store(<<"{", "\n", " ", "\"", "t", "a", "s", "k", "s", "\"", ":", " ", "{", " ">>
          \o r1 \o <<",", "\n">> \o r2 \o <<"\n", " ", "}", " ", "\n", " ", "}", "\n">>)

GoodRecord ==
    RecordText(<<"1">>, <<"1">>, <<"g">>, <<"d", "o", "n", "e">>, <<"0">>, <<"0">>)

\* hand-written stores whose key and embedded id differ
MismatchPairs == {<<3, 5>>, <<1, 0>>}

MismatchStore(k, e) ==
    OneRecordStore(RecordText(FormatUnsigned(k), FormatUnsigned(e), <<"m">>,
                              <<"d", "o", "n", "e">>, <<"1">>, <<"1">>))

\* a hand-written store with two records under the key 1
DuplicateKeyStore ==
    TwoRecordStore(GoodRecord,
        RecordText(<<"1">>, <<"1">>, <<"h">>, <<"t", "o", "d", "o">>, <<"0">>, <<"0">>))

\* status texts that are none of the three names: empty, capitalised
OddStatusTexts == {<<>>, <<"D", "o", "n", "e">>}

\* a hand-written store of one record, key 0, with the status text s
OddStatusStore(s) ==
    OneRecordStore(RecordText(<<"0">>, <<"0">>, <<"s">>, s, <<"0">>, <<"0">>))

\* a hand-written store whose second record has a non-numeric updated_at
CorruptAfterGood ==
    TwoRecordStore(GoodRecord,
        RecordText(<<"0">>, <<"0">>, <<"a">>, <<"t", "o", "d", "o">>, <<"0">>, <<"k">>))

\* hand-written stores with one non-numeric field: the key, the embedded
\* id, created_at, updated_at
CorruptStores ==
    {OneRecordStore(RecordText(<<"k">>, <<"0">>, <<"a">>, <<"t", "o", "d", "o">>, <<"0">>, <<"0">>)),
     OneRecordStore(RecordText(<<"0">>, <<"k">>, <<"a">>, <<"t", "o", "d", "o">>, <<"0">>, <<"0">>)),
     OneRecordStore(RecordText(<<"0">>, <<"0">>, <<"a">>, <<"t", "o", "d", "o">>, <<"k">>, <<"0">>)),
     CorruptAfterGood}

InitialStores ==
    {NoStore}
    \cup {Store(StoreText(TwoTasks, <<2, 0>>))}
    \cup {MismatchStore(pr[1], pr[2]) : pr \in MismatchPairs}
    \cup {OddStatusStore(s) : s \in OddStatusTexts}
    \cup {DuplicateKeyStore}
    \cup CorruptStores

----------------------------------------------------------------------------
(* The program: main, one invocation p *)

NoOutput == [msgs |-> {}, diag |-> 0, rows |-> <<>>]

Handler(p) == [tasks |-> tasks[p], updated |-> updated[p]]

\* the handler after a command, and the line the command printed
Apply(p, r) ==
    /\ tasks' = [tasks EXCEPT ![p] = r.tasks]
    /\ updated' = [updated EXCEPT ![p] = r.updated]
    /\ out' = [out EXCEPT ![p].msgs = @ \cup {r.msg}]
    /\ pc' = [pc EXCEPT ![p] = "ran"]

\* a main that reports the bad id and goes on to its end
ReportBadId(p) ==
    /\ pc' = [pc EXCEPT ![p] = "ran"]
    /\ UNCHANGED <<tasks, updated, out>>

\* a command-line id that is no number: expect("id must be a number")
Panic(p) ==
    /\ pc' = [pc EXCEPT ![p] = "cmd_panic"]
    /\ UNCHANGED <<tasks, updated, out>>

Untouched == <<file, procs, args, loaded, wrote, loadedAt, started,
               writes, lastWriter>>

\* SystemTime::now(): the clock stands where it was last read or later
ClockReads == now..MaxTime

\* lines 251-253: the arguments are collected and the store is loaded
Load(p) ==
    /\ p \in procs
    /\ pc[p] \in {"off", "exit", "load_panic", "cmd_panic"}
    /\ started < MaxInvocations
    /\ \E r \in {query_task_file(file)} :
           /\ pc' = [pc EXCEPT ![p] = IF r.ok THEN "loaded" ELSE "load_panic"]
           /\ tasks' = [tasks EXCEPT ![p] = r.tasks]
           /\ loaded' = [loaded EXCEPT ![p] = r.tasks]
           /\ out' = [out EXCEPT ![p] = [NoOutput EXCEPT !.diag = r.diag]]
    /\ \E a \in (IF procs = {1} THEN ArgVectors ELSE MutatingArgVectors) :
           args' = [args EXCEPT ![p] = a]
    /\ updated' = [updated EXCEPT ![p] = FALSE]
    /\ wrote' = [wrote EXCEPT ![p] = FALSE]
    /\ loadedAt' = [loadedAt EXCEPT ![p] = writes]
    /\ started' = started + 1
    /\ UNCHANGED <<file, now, procs, writes, lastWriter>>

\* line 329: no argument
NoArguments(p) ==
    /\ pc[p] = "loaded"
    /\ Len(args[p]) = 0
    /\ out' = [out EXCEPT ![p].msgs = @ \cup {"Invalid amount of arguments"}]
    /\ pc' = [pc EXCEPT ![p] = "ran"]
    /\ UNCHANGED <<tasks, updated, now>>
    /\ UNCHANGED Untouched

\* lines 264-270: ("add", 2)
Add(p) ==
    /\ pc[p] = "loaded"
    /\ Len(args[p]) = 2 /\ args[p][1] = CmdAdd
    /\ \E t \in ClockReads :
           /\ now' = t
           /\ Apply(p, add(Handler(p), args[p][2], t))
    /\ UNCHANGED Untouched

\* lines 271-282: ("update", 3)
Update(p) ==
    /\ pc[p] = "loaded"
    /\ Len(args[p]) = 3 /\ args[p][1] = CmdUpdate
    /\ LET id == ParseUnsigned(args[p][2])
       IN  IF id < 0 THEN Panic(p) /\ UNCHANGED now
           ELSE \E t \in ClockReads :
                    /\ now' = t
                    /\ Apply(p, update(Handler(p), id, args[p][3], t))
    /\ UNCHANGED Untouched

\* lines 283-290: ("delete", 2)
Delete(p) ==
    /\ pc[p] = "loaded"
    /\ Len(args[p]) = 2 /\ args[p][1] = CmdDelete
    /\ LET id == ParseUnsigned(args[p][2])
       IN  IF id < 0 THEN Panic(p)
           ELSE Apply(p, delete(Handler(p), id))
    /\ UNCHANGED now
    /\ UNCHANGED Untouched

\* lines 293-304: the filter of list
FilterOf(a) ==
    IF Len(a) < 2 THEN "None"
    ELSE IF a[2] = <<"d", "o", "n", "e">> THEN "Done"
    ELSE IF a[2] = <<"t", "o", "d", "o">> THEN "Todo"
    ELSE IF a[2] = <<"i", "n", "-", "p", "r", "o", "g", "r", "e", "s", "s">> THEN "InProgress"
    ELSE "None"

\* line 299: the warning for a filter that is no status
FilterWarning(a) ==
    IF Len(a) = 2 /\ a[2] \notin {StatusText(st) : st \in Status}
    THEN {"Not a valid status for task"}
    ELSE {}

\* lines 291-307: ("list", 1..=2)
List(p) ==
    /\ pc[p] = "loaded"
    /\ Len(args[p]) \in 1..2 /\ args[p][1] = CmdList
    /\ \E order \in Orders(tasks[p]) :
           out' = [out EXCEPT
                     ![p].msgs = @ \cup FilterWarning(args[p]),
                     ![p].rows = list(Handler(p), FilterOf(args[p]), order)]
    /\ pc' = [pc EXCEPT ![p] = "ran"]
    /\ UNCHANGED <<tasks, updated, now>>
    /\ UNCHANGED Untouched

\* lines 308-315: ("mark-in-progress", 2)
MarkInProgress(p) ==
    /\ pc[p] = "loaded"
    /\ Len(args[p]) = 2 /\ args[p][1] = CmdMarkInProgress
    /\ LET id == ParseUnsigned(args[p][2])
       IN  IF id < 0 THEN Panic(p) /\ UNCHANGED now
           ELSE \E t \in ClockReads :
                    /\ now' = t
                    /\ Apply(p, mark_in_progress(Handler(p), id, t))
    /\ UNCHANGED Untouched

\* lines 316-323: ("mark-done", 2)
MarkDone(p) ==
    /\ pc[p] = "loaded"
    /\ Len(args[p]) = 2 /\ args[p][1] = CmdMarkDone
    /\ LET id == ParseUnsigned(args[p][2])
       IN  IF id < 0 THEN Panic(p) /\ UNCHANGED now
           ELSE \E t \in ClockReads :
                    /\ now' = t
                    /\ Apply(p, mark_done(Handler(p), id, t))
    /\ UNCHANGED Untouched

\* whether an arm of the match at line 263 other than (_, _) takes a
MatchesCommand(a) ==
    \/ Len(a) = 2 /\ a[1] \in {CmdAdd, CmdDelete, CmdMarkInProgress, CmdMarkDone}
    \/ Len(a) = 3 /\ a[1] = CmdUpdate
    \/ Len(a) \in 1..2 /\ a[1] = CmdList

\* a fallback arm that marks the collection dirty
InvalidArgumentDirty(p) ==
    /\ pc[p] = "loaded"
    /\ Len(args[p]) > 0 /\ ~MatchesCommand(args[p])
    /\ out' = [out EXCEPT ![p].msgs = @ \cup {"Invalid argument input"}]
    /\ pc' = [pc EXCEPT ![p] = "ran"]
    /\ updated' = [updated EXCEPT ![p] = TRUE]
    /\ UNCHANGED <<tasks, now>>
    /\ UNCHANGED Untouched

\* lines 324-326: (_, _)
InvalidArgument(p) ==
    /\ pc[p] = "loaded"
    /\ Len(args[p]) > 0 /\ ~MatchesCommand(args[p])
    /\ out' = [out EXCEPT ![p].msgs = @ \cup {"Invalid argument input"}]
    /\ pc' = [pc EXCEPT ![p] = "ran"]
    /\ UNCHANGED <<tasks, updated, now>>
    /\ UNCHANGED Untouched

\* a main that writes the store on every run
ShouldSaveAlways(p) == TRUE

\* a main that writes only when the store was not written since its load
ShouldSaveIfUnchanged(p) == updated[p] /\ writes = loadedAt[p]

\* a main that skips the write when the collection is empty
ShouldSaveIfNonEmpty(p) == updated[p] /\ tasks[p] # EmptyMap

\* line 331: whether main writes the store
ShouldSave(p) == updated[p]

\* lines 331-336: the store is written when the dirty flag is set, the
\* whole text in one write; then the invocation ends
Finish(p) ==
    /\ pc[p] = "ran"
    /\ pc' = [pc EXCEPT ![p] = "exit"]
    /\ IF ShouldSave(p)
       THEN /\ \E order \in Orders(tasks[p]) :
                   file' = Store(StoreText(tasks[p], order))
            /\ wrote' = [wrote EXCEPT ![p] = TRUE]
            /\ writes' = writes + 1
            /\ lastWriter' = p
       ELSE UNCHANGED <<file, wrote, writes, lastWriter>>
    /\ UNCHANGED <<now, procs, args, tasks, updated, out, loaded, loadedAt, started>>

InitProcess ==
    /\ pc = [p \in Procs |-> "off"]
    /\ args = [p \in Procs |-> <<>>]
    /\ tasks = [p \in Procs |-> EmptyMap]
    /\ updated = [p \in Procs |-> FALSE]
    /\ out = [p \in Procs |-> NoOutput]
    /\ loaded = [p \in Procs |-> EmptyMap]
    /\ wrote = [p \in Procs |-> FALSE]
    /\ loadedAt = [p \in Procs |-> 0]
    /\ started = 0
    /\ writes = 0
    /\ lastWriter = 0

\* one invocation at a time, over any initial store
Init ==
    /\ file \in InitialStores
    /\ now = 0
    /\ procs = {1}
    /\ InitProcess

\* two invocations of mutating commands over the same store
InitRace ==
    /\ file \in {NoStore, Store(StoreText(OneTask, <<0>>))}
    /\ now = 0
    /\ procs = {1, 2}
    /\ InitProcess

Next ==
    \E p \in Procs :
        \/ Load(p)
        \/ NoArguments(p)
        \/ Add(p)
        \/ Update(p)
        \/ Delete(p)
        \/ List(p)
        \/ MarkInProgress(p)
        \/ MarkDone(p)
        \/ InvalidArgument(p)
        \/ Finish(p)

\* the steps of invocations that run mutating commands
NextRace ==
    \E p \in Procs :
        \/ Load(p)
        \/ Add(p)
        \/ Update(p)
        \/ Delete(p)
        \/ MarkInProgress(p)
        \/ MarkDone(p)
        \/ Finish(p)

Spec == Init /\ [][Next]_vars

SpecRace == InitRace /\ [][NextRace]_vars

----------------------------------------------------------------------------
(* Properties *)

IsAdd(a) == Len(a) = 2 /\ a[1] = CmdAdd
IsUpdate(a) == Len(a) = 3 /\ a[1] = CmdUpdate
IsDelete(a) == Len(a) = 2 /\ a[1] = CmdDelete
IsMarkInProgress(a) == Len(a) = 2 /\ a[1] = CmdMarkInProgress
IsMarkDone(a) == Len(a) = 2 /\ a[1] = CmdMarkDone
IsList(a) == Len(a) \in 1..2 /\ a[1] = CmdList
IsIdCommand(a) == IsUpdate(a) \/ IsDelete(a) \/ IsMarkInProgress(a) \/ IsMarkDone(a)

\* the id argument of an id command, -1 when it is no number
IdArg(a) == ParseUnsigned(a[2])

Delimiters == {"{", "}", ",", ":"}

NoQuoteNoDelimiter(d) ==
    \A i \in 1..Len(d) : d[i] \notin Delimiters \cup {"\""}

NoOuterWhitespace(d) == Trim(d) = d

\* a SystemTime cut to whole seconds since the epoch (0 before it)
WholeSeconds(t) == FromSecs(SecsSinceEpoch(t))

\* invocation p ended after writing a non-empty collection; when it is the
\* only invocation, the store file holds what it wrote
SavedNonEmpty(p) ==
    pc[p] = "exit" /\ wrote[p] /\ lastWriter = p /\ tasks[p] # EmptyMap

\* C1 as stated: for every non-empty collection whose descriptions hold no
\* quote and no structural delimiter (leading and trailing whitespace
\* allowed), decoding the saved text gives the same ids and, per id, the
\* same description, status, created_at and updated_at as in memory.
C1_RoundTripAsStated ==
    \A p \in procs :
        (SavedNonEmpty(p)
         /\ \A id \in DOMAIN tasks[p] : NoQuoteNoDelimiter(tasks[p][id].description))
        => \E r \in {query_task_file(file)} : r.ok /\ r.tasks = tasks[p]

\* C1 amended: for every non-empty collection whose descriptions hold no
\* quote, no structural delimiter and no leading or trailing whitespace,
\* decoding the saved text gives the same ids and, per id, the same
\* description and status, and created_at and updated_at cut to whole
\* seconds.
C1_RoundTrip ==
    \A p \in procs :
        (SavedNonEmpty(p)
         /\ \A id \in DOMAIN tasks[p] :
                /\ NoQuoteNoDelimiter(tasks[p][id].description)
                /\ NoOuterWhitespace(tasks[p][id].description))
        => \E r \in {query_task_file(file)} :
               /\ r.ok
               /\ DOMAIN r.tasks = DOMAIN tasks[p]
               /\ \A id \in DOMAIN tasks[p] :
                      r.tasks[id] =
                          [tasks[p][id] EXCEPT
                              !.created_at = WholeSeconds(@),
                              !.updated_at = WholeSeconds(@)]

\* a saved collection of three tasks, one of them in progress and one
\* created off a second boundary, that decodes without abort
C1_Witness ==
    /\ SavedNonEmpty(1)
    /\ Cardinality(DOMAIN tasks[1]) = 3
    /\ \A id \in DOMAIN tasks[1] :
           /\ NoQuoteNoDelimiter(tasks[1][id].description)
           /\ NoOuterWhitespace(tasks[1][id].description)
    /\ \E id \in DOMAIN tasks[1] : tasks[1][id].created_at % TicksPerSec # 0
    /\ \E id \in DOMAIN tasks[1] : tasks[1][id].status = "InProgress"
    /\ query_task_file(file).ok

\* invocation p has just loaded the hand-written store whose one record
\* has key k and embedded id e
LoadedMismatch(p, k, e) ==
    pc[p] \in {"loaded", "load_panic"} /\ writes = 0 /\ file = MismatchStore(k, e)

\* C2 as stated: a record with numeric key k and embedded id e # k decodes
\* without abort, with a diagnostic, to a task stored under e with id e.
C2_EmbeddedIdAsStated ==
    \A p \in procs : \A pr \in MismatchPairs :
        LoadedMismatch(p, pr[1], pr[2])
        => /\ pc[p] = "loaded"
           /\ out[p].diag >= 1
           /\ pr[2] \in DOMAIN tasks[p]
           /\ tasks[p][pr[2]].id = pr[2]

\* C2 amended: a record with numeric key k and embedded id e # k decodes
\* without abort, with a diagnostic, to a task stored under the key k with
\* id k; no task is stored under e.
C2_KeyIdUsed ==
    \A p \in procs : \A pr \in MismatchPairs :
        LoadedMismatch(p, pr[1], pr[2])
        => /\ pc[p] = "loaded"
           /\ out[p].diag >= 1
           /\ DOMAIN tasks[p] = {pr[1]}
           /\ tasks[p][pr[1]].id = pr[1]

C2_Witness ==
    /\ LoadedMismatch(1, 3, 5)
    /\ pc[1] = "loaded"
    /\ out[1].diag = 1
    /\ 3 \in DOMAIN tasks[1]

\* the command of invocation p has run
Ran(p) == pc[p] \in {"ran", "exit"}

\* C3: add creates the new task under the smallest non-negative integer
\* that is no id of the collection, with status todo; an id freed by a
\* delete is taken again.
C3_SmallestFreeId ==
    \A p \in procs :
        (Ran(p) /\ IsAdd(args[p]))
        => \E id \in DOMAIN tasks[p] :
               /\ id \notin DOMAIN loaded[p]
               /\ \A j \in 0..(id - 1) : j \in DOMAIN loaded[p]
               /\ \A j \in DOMAIN loaded[p] : loaded[p][j].id # id
               /\ DOMAIN tasks[p] = DOMAIN loaded[p] \cup {id}
               /\ tasks[p][id].id = id
               /\ tasks[p][id].status = "Todo"
               /\ tasks[p][id].description = args[p][2]

\* the second invocation adds after the first deleted id 0 of {0, 2}: the
\* freed id 0 is taken again
C3_Witness ==
    /\ started = 2 /\ Ran(1) /\ IsAdd(args[1])
    /\ DOMAIN loaded[1] = {2}
    /\ DOMAIN tasks[1] = {0, 2}

\* whether the command a mutates the collection map
Mutates(a, map) ==
    \/ IsAdd(a)
    \/ IsIdCommand(a) /\ IdArg(a) \in DOMAIN map

\* C4: the dirty flag is clear after every load; an invocation that ends
\* has written the store file if and only if its command mutated the
\* collection; list never writes, and list without a store file sees an
\* empty collection and leaves the file absent.
C4_DirtyFlagGating ==
    \A p \in procs :
        /\ pc[p] = "loaded" => ~updated[p]
        /\ pc[p] = "exit" => (wrote[p] <=> Mutates(args[p], loaded[p]))
        /\ pc[p] # "exit" => ~wrote[p]
        /\ IsList(args[p]) => ~wrote[p] /\ ~updated[p]
        /\ (IsList(args[p]) /\ Ran(p) /\ writes = 0 /\ ~file.exists)
           => tasks[p] = EmptyMap /\ out[p].rows = <<>>

\* an update of an existing task has been written
C4_Witness ==
    /\ pc[1] = "exit" /\ wrote[1] /\ IsUpdate(args[1])
    /\ IdArg(args[1]) \in DOMAIN loaded[1]
    /\ file.exists

\* C5: update, delete, mark-in-progress or mark-done with a numeric id that
\* is no key leaves the collection as loaded and the dirty flag clear,
\* writes nothing and does not abort.
C5_TaskNotFound ==
    \A p \in procs :
        (IsIdCommand(args[p]) /\ IdArg(args[p]) >= 0
         /\ IdArg(args[p]) \notin DOMAIN loaded[p] /\ pc[p] # "load_panic")
        => /\ pc[p] \in {"loaded", "ran", "exit"}
           /\ tasks[p] = loaded[p]
           /\ ~updated[p]
           /\ ~wrote[p]
           /\ Ran(p) => out[p].msgs \subseteq
                  {"Task not available", "Task failed to delete or does not exist"}

\* a delete of an id that is no key of a non-empty collection has ended
C5_Witness ==
    /\ pc[1] = "exit" /\ IsDelete(args[1]) /\ IdArg(args[1]) = 1
    /\ DOMAIN loaded[1] = {0, 2}
    /\ tasks[1] = loaded[1]

\* C6: with a non-numeric key, embedded id, created_at or updated_at in the
\* store, every invocation aborts in its load: no command runs (whatever
\* the arguments), no collection is used, and the store file stays as it
\* was.
C6_FatalLoad ==
    file \in CorruptStores
    => /\ writes = 0
       /\ \A p \in procs :
              /\ pc[p] \in {"off", "load_panic"}
              /\ tasks[p] = EmptyMap
              /\ ~updated[p]
              /\ ~wrote[p]
              /\ out[p].msgs = {}

\* an add over the store whose second record is corrupt has aborted, the
\* second invocation in a row
C6_Witness ==
    /\ file = CorruptAfterGood
    /\ started = 2
    /\ pc[1] = "load_panic" /\ IsAdd(args[1])

\* the collection after the command a on the collection map at time t
RunCommand(a, map, t) ==
    LET h == [tasks |-> map, updated |-> FALSE]
    IN  IF IsAdd(a) THEN add(h, a[2], t).tasks
        ELSE IF IsUpdate(a) THEN update(h, IdArg(a), a[3], t).tasks
        ELSE IF IsDelete(a) THEN delete(h, IdArg(a)).tasks
        ELSE IF IsMarkInProgress(a) THEN mark_in_progress(h, IdArg(a), t).tasks
        ELSE IF IsMarkDone(a) THEN mark_done(h, IdArg(a), t).tasks
        ELSE map

\* p wrote last, and p and q both loaded before either of them wrote
LostUpdate(p, q) ==
    /\ p # q
    /\ wrote[p] /\ wrote[q]
    /\ lastWriter = p
    /\ loadedAt[p] = loadedAt[q]

\* C7: with file reads and writes atomic and nothing else protecting the
\* store, an invocation whose command mutated always writes; the store
\* holds exactly the encoded collection of the last writer; when both
\* invocations loaded before either wrote, that collection is the last
\* writer's command applied to the store as both loaded it, so the
\* earlier writer's mutation is absent (two adds take the same id and one
\* task survives).
C7_LastWriterWins ==
    \A p \in procs :
        /\ (pc[p] = "exit" /\ updated[p]) => wrote[p]
        /\ (wrote[p] /\ lastWriter = p)
           => file.exists /\ file.text \in StoreTexts(tasks[p])
        /\ \A q \in procs :
               LostUpdate(p, q)
               => /\ loaded[p] = loaded[q]
                  /\ \E t \in 0..now : tasks[p] = RunCommand(args[p], loaded[q], t)
                  /\ (IsAdd(args[p]) /\ IsAdd(args[q]))
                     => /\ DOMAIN tasks[p] = DOMAIN tasks[q]
                        /\ Cardinality(DOMAIN tasks[p]) =
                               Cardinality(DOMAIN loaded[q]) + 1
                  /\ (IsAdd(args[q]) /\ ~IsAdd(args[p]))
                     => DOMAIN tasks[p] \subseteq DOMAIN loaded[q]

\* two adds of different descriptions raced over the store {0}: both took
\* id 1 and the store holds only the later one
C7_Witness ==
    /\ LostUpdate(2, 1)
    /\ IsAdd(args[1]) /\ IsAdd(args[2]) /\ args[1][2] # args[2][2]
    /\ DOMAIN loaded[1] = {0}
    /\ tasks[1][1].description = args[1][2]
    /\ \E r \in {query_task_file(file)} :
           /\ DOMAIN r.tasks = {0, 1}
           /\ r.tasks[1].description = args[2][2]

\* C8: update on an existing id replaces that task's description with the
\* given text and sets its updated_at to the current time; its id, status
\* and created_at, every other task and the set of ids stay as they were,
\* whatever the task's status.
C8_UpdateFrame ==
    [][\A p \in Procs :
           (pc[p] = "loaded" /\ pc'[p] = "ran" /\ IsUpdate(args[p])
            /\ IdArg(args[p]) \in DOMAIN tasks[p])
           => /\ DOMAIN tasks'[p] = DOMAIN tasks[p]
              /\ tasks'[p] =
                     [tasks[p] EXCEPT
                         ![IdArg(args[p])] =
                             [@ EXCEPT !.description = args[p][3],
                                       !.updated_at = now']]]_vars

\* a task in progress, created at tick 0, was updated at a later tick
C8_Witness ==
    /\ pc[1] = "ran" /\ IsUpdate(args[1]) /\ IdArg(args[1]) = 0
    /\ 0 \in DOMAIN loaded[1] /\ 0 \in DOMAIN tasks[1]
    /\ loaded[1][0].status = "InProgress"
    /\ tasks[1][0].status = "InProgress"
    /\ tasks[1][0].description = args[1][3]
    /\ tasks[1][0].description # loaded[1][0].description
    /\ tasks[1][0].updated_at = now /\ now > loaded[1][0].updated_at
    /\ Cardinality(DOMAIN tasks[1]) = 2

\* C9: mark-in-progress (mark-done) on an existing id sets that task's
\* status to in-progress (done) whatever it was, keeps its id, description
\* and created_at, sets the dirty flag and leaves every other task as it
\* was.
C9_MarkStatus ==
    \A p \in procs :
        (Ran(p) /\ (IsMarkInProgress(args[p]) \/ IsMarkDone(args[p]))
         /\ IdArg(args[p]) \in DOMAIN loaded[p])
        => LET id == IdArg(args[p])
           IN  /\ DOMAIN tasks[p] = DOMAIN loaded[p]
               /\ tasks[p][id].status =
                      (IF IsMarkDone(args[p]) THEN "Done" ELSE "InProgress")
               /\ tasks[p][id].id = loaded[p][id].id
               /\ tasks[p][id].description = loaded[p][id].description
               /\ tasks[p][id].created_at = loaded[p][id].created_at
               /\ updated[p]
               /\ \A other \in DOMAIN loaded[p] \ {id} :
                      tasks[p][other] = loaded[p][other]

\* a task in progress was marked done, beside another task
C9_Witness ==
    /\ Ran(1) /\ IsMarkDone(args[1]) /\ IdArg(args[1]) = 0
    /\ DOMAIN loaded[1] = {0, 2}
    /\ loaded[1][0].status = "InProgress"
    /\ tasks[1][0].status = "Done"
    /\ updated[1]

\* C10: delete on an existing id removes exactly that task: no task has
\* that id afterwards, every other task is there unchanged, the dirty flag
\* is set; deleting the only task leaves the collection empty.
C10_DeleteExact ==
    \A p \in procs :
        (Ran(p) /\ IsDelete(args[p]) /\ IdArg(args[p]) \in DOMAIN loaded[p])
        => LET id == IdArg(args[p])
           IN  /\ DOMAIN tasks[p] = DOMAIN loaded[p] \ {id}
               /\ \A other \in DOMAIN tasks[p] :
                      /\ tasks[p][other] = loaded[p][other]
                      /\ tasks[p][other].id # id
               /\ updated[p]
               /\ (DOMAIN loaded[p] = {id} => tasks[p] = EmptyMap)

\* the only task of the collection was deleted
C10_Witness ==
    /\ Ran(1) /\ IsDelete(args[1])
    /\ DOMAIN loaded[1] = {IdArg(args[1])}
    /\ tasks[1] = EmptyMap
    /\ updated[1]

\* C11: for every store text that decodes without abort to a collection,
\* encoding that collection (in any order of the map) and decoding the
\* result gives the same collection: the same ids and, per id, the same
\* description, status, created_at and updated_at.
C11_DecodeEncodeIdempotent ==
    \A p \in procs :
        (pc[p] = "loaded" /\ file.exists)
        => \E c1 \in {query_task_file(file)} :
               c1.ok
               => \A o \in Orders(c1.tasks) :
                      \E c2 \in {query_task_file(Store(StoreText(c1.tasks, o)))} :
                          c2.ok /\ c2.tasks = c1.tasks

\* a store that is no encoding of the collection it decodes to (the
\* decoder changed a description, or the store was written by hand) has
\* been loaded, to two tasks with a time that is not zero
C11_Witness ==
    /\ pc[1] = "loaded" /\ file.exists
    /\ Cardinality(DOMAIN loaded[1]) = 2
    /\ file.text \notin StoreTexts(loaded[1])
    /\ \E id \in DOMAIN loaded[1] : loaded[1][id].updated_at > 0
    /\ loaded[1] = query_task_file(file).tasks

HasQuote(d) == \E i \in 1..Len(d) : d[i] = "\""

NoDelimiter(d) == \A i \in 1..Len(d) : d[i] \notin Delimiters

\* the text d without its double quotes, the other characters in order
WithoutQuotes(d) == SelectSeq(d, LAMBDA c : c # "\"")

\* C12 as stated: when no description of a saved collection holds a
\* structural delimiter, the load does not abort and every description
\* that holds a double quote comes back as the same text without its
\* quotes, every other character kept.
C12_QuotesRemovedAsStated ==
    \A p \in procs :
        (SavedNonEmpty(p)
         /\ \A id \in DOMAIN tasks[p] : NoDelimiter(tasks[p][id].description))
        => \E r \in {query_task_file(file)} :
               /\ r.ok
               /\ \A id \in DOMAIN tasks[p] :
                      HasQuote(tasks[p][id].description)
                      => /\ id \in DOMAIN r.tasks
                         /\ r.tasks[id].description =
                                WithoutQuotes(tasks[p][id].description)

\* C12 amended: when no description of a saved collection holds a
\* structural delimiter, the load does not abort and every description
\* that holds a double quote comes back as the text without its quotes
\* and then without leading and trailing whitespace, the characters in
\* between kept in order.
C12_QuotesRemovedThenTrimmed ==
    \A p \in procs :
        (SavedNonEmpty(p)
         /\ \A id \in DOMAIN tasks[p] : NoDelimiter(tasks[p][id].description))
        => \E r \in {query_task_file(file)} :
               /\ r.ok
               /\ \A id \in DOMAIN tasks[p] :
                      HasQuote(tasks[p][id].description)
                      => /\ id \in DOMAIN r.tasks
                         /\ r.tasks[id].description =
                                Trim(WithoutQuotes(tasks[p][id].description))

\* a saved collection of two tasks holds the description "-space-b, which
\* decodes to b, beside a description that once was a"b and is ab
C12_Witness ==
    /\ SavedNonEmpty(1)
    /\ \A id \in DOMAIN tasks[1] : NoDelimiter(tasks[1][id].description)
    /\ \E r \in {query_task_file(file)} :
           /\ r.ok
           /\ \E i, j \in DOMAIN tasks[1] :
                  /\ tasks[1][i].description = <<"a", "b">>
                  /\ r.tasks[i].description = <<"a", "b">>
                  /\ tasks[1][j].description = <<"\"", " ", "b">>
                  /\ r.tasks[j].description = <<"b">>

AllNoDelimiter(map) == \A id \in DOMAIN map : NoDelimiter(map[id].description)

\* invocation p runs its command in this step
CommandStep(p) == pc[p] = "loaded" /\ pc'[p] = "ran"

\* invocation p ends in this step, saving if the dirty flag is set
FinishStep(p) == pc[p] = "ran" /\ pc'[p] = "exit"

\* the next invocation loads in this step what the one before it left
ReloadStep(p) == pc[p] \in {"exit", "cmd_panic"} /\ pc'[p] = "loaded"

\* C13 as stated: a task that is in the collection before and after a
\* step has the same created_at before and after it, whether the step is
\* a command, the end of the invocation, or the load of the next
\* invocation after the save.
C13_CreatedAtFixedAsStated ==
    [][\A p \in procs :
           (CommandStep(p) \/ FinishStep(p) \/ ReloadStep(p))
           => \A id \in DOMAIN tasks[p] \cap DOMAIN tasks'[p] :
                  tasks'[p][id].created_at = tasks[p][id].created_at]_vars

\* C13 amended: within an invocation a task that stays in the collection
\* keeps its created_at exactly, whatever command runs on whatever id;
\* over a save-then-load cycle, when no description holds a structural
\* delimiter, every task is still there with its created_at cut to whole
\* seconds, which is the same value from the first load on.
C13_CreatedAtFixedToSeconds ==
    [][\A p \in procs :
           /\ (CommandStep(p) \/ FinishStep(p))
              => \A id \in DOMAIN tasks[p] \cap DOMAIN tasks'[p] :
                     tasks'[p][id].created_at = tasks[p][id].created_at
           /\ (ReloadStep(p) /\ AllNoDelimiter(tasks[p]))
              => /\ DOMAIN tasks'[p] = DOMAIN tasks[p]
                 /\ \A id \in DOMAIN tasks[p] :
                        /\ tasks'[p][id].created_at =
                               WholeSeconds(tasks[p][id].created_at)
                        /\ WholeSeconds(tasks'[p][id].created_at) =
                               tasks'[p][id].created_at]_vars

\* after a save by the first invocation, the second marked a loaded task
\* done at a later time: updated_at moved, created_at is as loaded
C13_Witness ==
    /\ started = 2 /\ writes = 1 /\ pc[1] = "ran"
    /\ IsMarkDone(args[1]) /\ IdArg(args[1]) \in DOMAIN loaded[1]
    /\ AllNoDelimiter(tasks[1])
    /\ Cardinality(DOMAIN tasks[1]) = 3
    /\ tasks[1][IdArg(args[1])].created_at = loaded[1][IdArg(args[1])].created_at
    /\ tasks[1][IdArg(args[1])].updated_at > loaded[1][IdArg(args[1])].updated_at

\* the number of arguments each command takes, its name included
Arities ==
    (CmdAdd :> {2}) @@ (CmdUpdate :> {3}) @@ (CmdDelete :> {2})
    @@ (CmdList :> {1, 2}) @@ (CmdMarkInProgress :> {2}) @@ (CmdMarkDone :> {2})

\* the argument vector a is a user input error: no command, a command
\* that is none of the six, a wrong number of arguments, or list with a
\* filter that is no status name
InputError(a) ==
    \/ Len(a) = 0
    \/ Len(a) > 0 /\ a[1] \notin DOMAIN Arities
    \/ Len(a) > 0 /\ a[1] \in DOMAIN Arities /\ Len(a) \notin Arities[a[1]]
    \/ Len(a) = 2 /\ a[1] = CmdList
       /\ a[2] \notin {<<"t", "o", "d", "o">>, <<"d", "o", "n", "e">>,
                       <<"i", "n", "-", "p", "r", "o", "g", "r", "e", "s", "s">>}

\* C14: an invocation whose load did not abort and whose arguments are a
\* user input error never aborts, keeps the collection as loaded and the
\* dirty flag clear, prints a message when its command has run, and does
\* not write the store file.
C14_InputErrorsHarmless ==
    \A p \in procs :
        (InputError(args[p]) /\ pc[p] \notin {"off", "load_panic"})
        => /\ pc[p] \in {"loaded", "ran", "exit"}
           /\ tasks[p] = loaded[p]
           /\ ~updated[p]
           /\ ~wrote[p]
           /\ Ran(p) => out[p].msgs # {}
           /\ pc[p] = "exit" => writes = loadedAt[p]

\* delete with an existing id and one argument too many has ended over a
\* collection that still holds the id
C14_Witness ==
    /\ pc[1] = "exit"
    /\ args[1] = <<CmdDelete, <<"0">>, <<"0">>>>
    /\ 0 \in DOMAIN tasks[1]
    /\ out[1].msgs = {"Invalid argument input"}
    /\ file.exists

\* the text s is a decimal numeral
IsNumeral(s) == Len(s) > 0 /\ \A i \in 1..Len(s) : IsDigit(s[i])

\* a is update, delete, mark-in-progress or mark-done with the right
\* number of arguments and an id argument that is no unsigned integer
BadIdCommand(a) == IsIdCommand(a) /\ ~IsNumeral(a[2])

\* C15: an invocation of update, delete, mark-in-progress or mark-done
\* whose id argument is no unsigned integer aborts where it reads the id:
\* it never gets to the end of its command, the collection stays as
\* loaded, the dirty flag stays clear and the store file is not written.
C15_BadIdAborts ==
    \A p \in procs :
        (BadIdCommand(args[p]) /\ pc[p] \notin {"off", "load_panic"})
        => /\ pc[p] \in {"loaded", "cmd_panic"}
           /\ tasks[p] = loaded[p]
           /\ ~updated[p]
           /\ ~wrote[p]
           /\ out[p].msgs = {}
           /\ writes = loadedAt[p]

\* the second invocation, update with id x over a saved collection of two
\* tasks, has aborted
C15_Witness ==
    /\ pc[1] = "cmd_panic" /\ started = 2 /\ writes = 1
    /\ IsUpdate(args[1]) /\ args[1][2] = <<"x">>
    /\ Cardinality(DOMAIN tasks[1]) = 2
    /\ file.text \in StoreTexts(tasks[1])

\* the status a filter token names, "None" when it names none
NamedStatus(token) ==
    IF token = <<"t", "o", "d", "o">> THEN "Todo"
    ELSE IF token = <<"i", "n", "-", "p", "r", "o", "g", "r", "e", "s", "s">>
    THEN "InProgress"
    ELSE IF token = <<"d", "o", "n", "e">> THEN "Done"
    ELSE "None"

\* the rows are exactly the tasks of map with an id in ids, each once
RowsAreExactly(rows, map, ids) ==
    /\ Len(rows) = Cardinality(ids)
    /\ {rows[i].id : i \in 1..Len(rows)} = ids
    /\ \A i \in 1..Len(rows) :
           /\ rows[i].id \in DOMAIN map
           /\ rows[i].description = map[rows[i].id].description
           /\ rows[i].status = map[rows[i].id].status

\* C16: list with a filter that names a status prints exactly the tasks of
\* that status, each once; list with no filter, or with a token that names
\* no status, prints every task, the latter with the warning and the
\* former without; list leaves the collection and the dirty flag alone.
C16_StatusFilter ==
    \A p \in procs :
        (Ran(p) /\ IsList(args[p]))
        => LET st == IF Len(args[p]) = 2 THEN NamedStatus(args[p][2]) ELSE "None"
           IN  /\ st \in Status
                  => RowsAreExactly(out[p].rows, tasks[p],
                         {id \in DOMAIN tasks[p] : tasks[p][id].status = st})
               /\ st = "None"
                  => RowsAreExactly(out[p].rows, tasks[p], DOMAIN tasks[p])
               /\ ("Not a valid status for task" \in out[p].msgs)
                  <=> (Len(args[p]) = 2 /\ st = "None")
               /\ tasks[p] = loaded[p]
               /\ ~updated[p]

\* list done over three tasks, one of them done, printed that one alone
C16_Witness ==
    /\ pc[1] = "ran" /\ args[1] = <<CmdList, <<"d", "o", "n", "e">>>>
    /\ Cardinality(DOMAIN tasks[1]) = 3
    /\ Cardinality({id \in DOMAIN tasks[1] : tasks[1][id].status = "Done"}) = 1
    /\ Len(out[1].rows) = 1
    /\ tasks[1][out[1].rows[1].id].status = "Done"

\* no description of map holds a quote, a brace or a comma
AllColonsOnly(map) ==
    \A id \in DOMAIN map :
        \A i \in 1..Len(map[id].description) :
            map[id].description[i] \notin {"\"", "{", "}", ","}

\* the text of d before its first colon, all of d when it has none
BeforeFirstColon(d) == SubSeq(d, 1, NextDelim(d, {":"}, 1) - 1)

\* C17 as stated: the value of a field is the whole text after the first
\* colon of its part, trimmed: a saved description that holds a colon
\* (the part reads description: a:b) decodes to the whole description.
C17_AfterFirstColonAsStated ==
    \A p \in procs :
        (SavedNonEmpty(p) /\ AllColonsOnly(tasks[p]))
        => \E r \in {query_task_file(file)} :
               /\ r.ok
               /\ \A id \in DOMAIN tasks[p] :
                      /\ id \in DOMAIN r.tasks
                      /\ r.tasks[id].description = Trim(tasks[p][id].description)

\* C17 amended: the value of a field is the text between the first and
\* the second colon of its part, trimmed: a saved description that holds a
\* colon decodes to its text before that colon, and the text after it is
\* dropped.
C17_BetweenFirstAndSecondColon ==
    \A p \in procs :
        (SavedNonEmpty(p) /\ AllColonsOnly(tasks[p]))
        => \E r \in {query_task_file(file)} :
               /\ r.ok
               /\ \A id \in DOMAIN tasks[p] :
                      /\ id \in DOMAIN r.tasks
                      /\ r.tasks[id].description =
                             Trim(BeforeFirstColon(tasks[p][id].description))

\* a saved collection of two tasks holds the description a:b, which
\* decodes to a
C17_Witness ==
    /\ SavedNonEmpty(1) /\ AllColonsOnly(tasks[1])
    /\ Cardinality(DOMAIN tasks[1]) = 2
    /\ \E id \in DOMAIN tasks[1] :
           /\ tasks[1][id].description = <<"a", ":", "b">>
           /\ query_task_file(file).tasks[id].description = <<"a">>

\* invocation p has just loaded the hand-written store whose one record
\* has the status text s
LoadedOddStatus(p, s) ==
    pc[p] \in {"loaded", "load_panic"} /\ writes = 0 /\ file = OddStatusStore(s)

\* invocation p has just loaded the hand-written store whose one record,
\* under key k, has the status text done
LoadedDoneByHand(p, k) ==
    \E pr \in MismatchPairs :
        /\ pr[1] = k
        /\ pc[p] \in {"loaded", "load_panic"} /\ writes = 0
        /\ file = MismatchStore(pr[1], pr[2])

\* C18: a record whose status text is none of the three names (the empty
\* text, Done with a capital) loads without abort as Todo; the text done
\* loads as Done; and every status the encoder wrote decodes back to the
\* status of the task in memory, for todo, in-progress and done alike.
C18_StatusDecodingTotal ==
    \A p \in procs :
        /\ \A s \in OddStatusTexts :
               LoadedOddStatus(p, s)
               => /\ pc[p] = "loaded"
                  /\ DOMAIN tasks[p] = {0}
                  /\ tasks[p][0].status = "Todo"
        /\ \A k \in {pr[1] : pr \in MismatchPairs} :
               LoadedDoneByHand(p, k)
               => pc[p] = "loaded" /\ tasks[p][k].status = "Done"
        /\ (SavedNonEmpty(p) /\ AllNoDelimiter(tasks[p]))
           => \E r \in {query_task_file(file)} :
                  /\ r.ok
                  /\ \A id \in DOMAIN tasks[p] :
                         /\ id \in DOMAIN r.tasks
                         /\ r.tasks[id].status = tasks[p][id].status

\* the store whose record has the status text Done was loaded, to a task
\* that is Todo
C18_Witness ==
    /\ LoadedOddStatus(1, <<"D", "o", "n", "e">>)
    /\ pc[1] = "loaded"
    /\ tasks[1][0].status = "Todo"
    /\ tasks[1][0].description = <<"s">>

\* C19: in every state of every invocation, after the load of any store
\* that decodes (the ones with two records under one key or with a key
\* that differs from the embedded id included) and after every command,
\* each task of the collection is stored under the key that is its id, so
\* no two tasks have the same id.
C19_KeyIsId ==
    \A p \in procs :
        /\ \A k \in DOMAIN tasks[p] : tasks[p][k].id = k
        /\ \A j, k \in DOMAIN tasks[p] : tasks[p][j].id = tasks[p][k].id => j = k
        /\ \A k \in DOMAIN loaded[p] : loaded[p][k].id = k

\* an add ran over the store with two records under the key 1: the later
\* record is the task 1, the new task is 0
C19_Witness ==
    /\ file = DuplicateKeyStore /\ writes = 0
    /\ Ran(1) /\ IsAdd(args[1])
    /\ DOMAIN loaded[1] = {1}
    /\ loaded[1][1].description = <<"h">>
    /\ DOMAIN tasks[1] = {0, 1}
    /\ tasks[1][0].id = 0 /\ tasks[1][1].id = 1

\* the store a save of the empty collection writes
EmptyStore == Store(StoreText(EmptyMap, <<>>))

\* C20: a delete of the only task leaves the collection empty with the
\* dirty flag set; the invocation then writes the wrapper with no record;
\* that store decodes without abort to the empty collection, and an add in
\* the invocation that loaded it creates the task 0.
C20_EmptyCollectionPersists ==
    \A p \in procs :
        /\ (Ran(p) /\ IsDelete(args[p]) /\ IsNumeral(args[p][2])
            /\ DOMAIN loaded[p] = {IdArg(args[p])})
           => /\ tasks[p] = EmptyMap
              /\ updated[p]
              /\ pc[p] = "exit"
                 => /\ wrote[p]
                    /\ file = EmptyStore
                    /\ \E r \in {query_task_file(file)} :
                           r.ok /\ r.tasks = EmptyMap
        /\ file = EmptyStore => pc[p] # "load_panic"
        /\ (file = EmptyStore /\ pc[p] \in {"loaded", "ran"})
           => loaded[p] = EmptyMap
        /\ (file = EmptyStore /\ pc[p] = "ran" /\ IsAdd(args[p]))
           => /\ DOMAIN tasks[p] = {0}
              /\ tasks[p][0].id = 0

\* the second invocation added the task 0 over the store that the first
\* wrote after deleting the only task
C20_Witness ==
    /\ started = 2 /\ writes = 1
    /\ file = EmptyStore
    /\ pc[1] = "ran" /\ IsAdd(args[1])
    /\ DOMAIN tasks[1] = {0}

====
